---- MODULE Spec2Model ----
(***************************************************************************)
(* VerifyArtifactTransparencyLog (pkg/verify/tlog.go): admission of the    *)
(* entity's transparency log entries, the per-entry loop (log lookup,      *)
(* offline or online evidence, consistency with the entity) and the final  *)
(* threshold check.                                                        *)
(***************************************************************************)
EXTENDS Integers, Sequences, FiniteSets

VARIABLES entries, logThreshold, trustIntegratedTime, online,
          pc, idx, verifiedTimestamps, logEntriesVerified, ret,
          fault, calls, outcome, stampOf

vars == <<entries, logThreshold, trustIntegratedTime, online,
          pc, idx, verifiedTimestamps, logEntriesVerified, ret,
          fault, calls, outcome, stampOf>>

inputs == <<entries, logThreshold, trustIntegratedTime, online>>

(* ------------------------------ bounds -------------------------------- *)

\* longest entry list enumerated from the pool of entries
MaxLen == 2

\* largest threshold a caller passes
MaxThreshold == 2

(* ----------------------------- constants ------------------------------ *)

maxAllowedTlogEntries == 32

(* ------------------------- sequences and bytes ------------------------ *)

Range(s) == {s[i] : i \in DOMAIN s}

HexDigits == <<"0", "1", "2", "3", "4", "5", "6", "7",
               "8", "9", "a", "b", "c", "d", "e", "f">>

\* hex.EncodeToString: two lower-case digits per byte, high nibble first
RECURSIVE HexEncodeToString(_)
HexEncodeToString(bytes) ==
    IF bytes = <<>> THEN <<>>
    ELSE <<HexDigits[(bytes[1] \div 16) + 1], HexDigits[(bytes[1] % 16) + 1]>>
         \o HexEncodeToString(Tail(bytes))

\* bytes.Equal
BytesEqual(a, b) ==
    /\ Len(a) = Len(b)
    /\ \A i \in 1..Len(a) : a[i] = b[i]

(* --------------------------- trusted material ------------------------- *)

\* log key IDs as the raw bytes an entry carries
KeyA == <<192, 10>>
KeyB == <<11, 238>>
KeyU == <<192, 11>>

\* trustedMaterial.RekorLogs(): hex-encoded key ID -> TransparencyLog.
\* VerifierLoads is the answer of signature.LoadVerifier for the log's key.
RekorLogs ==
    [h \in {<<"c", "0", "0", "a">>, <<"0", "b", "e", "e">>} |->
        IF h = <<"c", "0", "0", "a">>
        THEN [BaseURL |-> "https://a.example", VerifierLoads |-> TRUE]
        ELSE [BaseURL |-> "https://b.example", VerifierLoads |-> FALSE]]

(* ------------------------------- entity ------------------------------- *)

\* sigContent.Signature()
entitySignature == <<222, 173>>

\* the key and validity window held by the entity's verification content
entityKey == "leaf"
ValidityWindow == 10..20

\* verificationContent.CompareKey(entry.PublicKey(), trustedMaterial)
CompareKey(publicKey) == publicKey = entityKey

\* verificationContent.ValidAtTime(entry.IntegratedTime(), trustedMaterial)
ValidAtTime(t) == t \in ValidityWindow

(* ------------------------------- entries ------------------------------ *)

\* An entry as the function sees it: the values of its accessors, and the
\* answers the collaborators give about it (ValidateEntry, VerifySET,
\* VerifyInclusion, the Rekor client and server).
Entry(key, index, wf, promise, proof, remote, sig, pk, t) ==
    [LogKeyID |-> key, LogIndex |-> index, IntegratedTime |-> t,
     Signature |-> sig, PublicKey |-> pk,
     HasInclusionPromise |-> promise # "none",
     HasInclusionProof |-> proof # "none",
     WellFormed |-> wf,
     SETValid |-> promise = "good",
     ProofValid |-> proof = "good",
     Remote |-> remote]

EvidenceKinds == {"none", "good", "bad"}

RemoteOK == [status |-> "ok", payload |-> <<TRUE>>]

RemoteFaults ==
    { [status |-> "clientErr", payload |-> <<>>],
      [status |-> "lookupErr", payload |-> <<>>],
      [status |-> "ok", payload |-> <<>>],
      [status |-> "ok", payload |-> <<TRUE, FALSE>>] }

EvidenceIndex(p, q) ==
    3 * (CASE p = "none" -> 0 [] p = "good" -> 1 [] OTHER -> 2)
      + (CASE q = "none" -> 0 [] q = "good" -> 1 [] OTHER -> 2)

\* entries of log A with every combination of promise and proof
PoolEvidence ==
    { Entry(KeyA, EvidenceIndex(p, q), TRUE, p, q, RemoteOK,
            entitySignature, entityKey, 12) : p \in EvidenceKinds, q \in EvidenceKinds }

\* entries of log A that disagree with the entity in one respect
PoolConsistency ==
    { Entry(KeyA, 10, TRUE, "good", "good", RemoteOK, <<222>>, entityKey, 12),
      Entry(KeyA, 11, TRUE, "good", "good", RemoteOK, entitySignature, "other", 12),
      Entry(KeyA, 12, TRUE, "good", "good", RemoteOK, entitySignature, entityKey, 25) }

RemoteIndex(r) ==
    CASE r.status = "clientErr" -> 13
      [] r.status = "lookupErr" -> 14
      [] r.payload = <<>> -> 15
      [] OTHER -> 16

\* entries of log A for which the Rekor client or server fails
PoolRemote ==
    { Entry(KeyA, RemoteIndex(r), TRUE, "good", "good", r,
            entitySignature, entityKey, 12) : r \in RemoteFaults }

\* entries of log A: malformed, another integrated time, and an entry that
\* has the identity of one of PoolEvidence and another content
PoolOther ==
    { Entry(KeyA, 20, FALSE, "good", "good", RemoteOK, entitySignature, entityKey, 12),
      Entry(KeyA, 21, TRUE, "good", "none", RemoteOK, entitySignature, entityKey, 15),
      Entry(KeyA, 4, TRUE, "good", "good", RemoteOK, entitySignature, entityKey, 15) }

\* entries of log B, whose verifier cannot be loaded
PoolB ==
    { Entry(KeyB, 0, TRUE, "good", "none", RemoteOK, entitySignature, entityKey, 15),
      Entry(KeyB, 1, TRUE, "good", "good", RemoteOK, entitySignature, entityKey, 12) }

\* entries of a log the trusted material does not list
PoolU ==
    { Entry(KeyU, 0, TRUE, "none", "none", RemoteOK, entitySignature, entityKey, 12),
      Entry(KeyU, 1, TRUE, "bad", "bad", [status |-> "lookupErr", payload |-> <<>>],
            <<222>>, "other", 25),
      Entry(KeyU, 2, TRUE, "good", "good", RemoteOK, entitySignature, entityKey, 12),
      Entry(KeyU, 3, FALSE, "good", "good", RemoteOK, entitySignature, entityKey, 12) }

Pool == PoolEvidence \cup PoolConsistency \cup PoolRemote \cup PoolOther
          \cup PoolB \cup PoolU

ShortLists == UNION { [1..n -> Pool] : n \in 0..MaxLen }

\* n entries of log A with log indices 101..100+n, all verifiable
Filler(n) ==
    [i \in 1..n |-> Entry(KeyA, 100 + i, TRUE, "good", "good", RemoteOK,
                          entitySignature, entityKey, 12)]

\* lists at and above the limit, without and with a repeated identity
LongLists ==
    { Filler(maxAllowedTlogEntries),
      Filler(maxAllowedTlogEntries + 1),
      [Filler(maxAllowedTlogEntries) EXCEPT ![maxAllowedTlogEntries] = Filler(1)[1]],
      [Filler(maxAllowedTlogEntries + 1) EXCEPT ![maxAllowedTlogEntries] = Filler(2)[2]] }

(* ------------------------------- results ------------------------------ *)

NoReturn == [returned |-> FALSE, err |-> "", isNil |-> TRUE, timestamps |-> <<>>]

\* return nil, err
Fail(err) == [returned |-> TRUE, err |-> err, isNil |-> TRUE, timestamps |-> <<>>]

\* return verifiedTimestamps, nil
Succeed(ts) == [returned |-> TRUE, err |-> "", isNil |-> FALSE, timestamps |-> ts]

Timestamp(entry, tlogVerifier) ==
    [Time |-> entry.IntegratedTime, URI |-> tlogVerifier.BaseURL]

Step(kind, err, stamp, ops) ==
    [kind |-> kind, err |-> err, stamp |-> stamp, ops |-> ops]

(* ------------------------- the loop body's parts ---------------------- *)

\* mutant: an entry of an unknown log ends the call
ResolveEntryStrict(entry) ==
    IF ~entry.WellFormed
    THEN Step("fatal", "ValidateEntry", FALSE, <<"ValidateEntry">>)
    ELSE IF HexEncodeToString(entry.LogKeyID) \notin DOMAIN RekorLogs
    THEN Step("fatal", "unknown log", FALSE, <<"ValidateEntry", "RekorLogs">>)
    ELSE Step("ok", "", FALSE, <<"ValidateEntry", "RekorLogs">>)

\* tlog.ValidateEntry, then the lookup of the hex-encoded key ID
ResolveEntry(entry) ==
    IF ~entry.WellFormed
    THEN Step("fatal", "ValidateEntry", FALSE, <<"ValidateEntry">>)
    ELSE IF HexEncodeToString(entry.LogKeyID) \notin DOMAIN RekorLogs
    THEN Step("skipLog", "", FALSE, <<"ValidateEntry", "RekorLogs">>)
    ELSE Step("ok", "", FALSE, <<"ValidateEntry", "RekorLogs">>)

\* the offline branch after its first check, with what it does when the SET
\* fails (skipKind, skipStamp) and whether a proof alone gives a timestamp
OfflineAfterPresence(entry, tlogVerifier, trust, skipKind, skipStamp, proofStamp) ==
    IF entry.HasInclusionPromise /\ ~entry.SETValid
    THEN Step(skipKind, IF skipKind = "fatal" THEN "VerifySET" ELSE "",
              skipStamp /\ trust, <<"VerifySET">>)
    ELSE LET set == IF entry.HasInclusionPromise THEN <<"VerifySET">> ELSE <<>>
             proved == entry.HasInclusionProof /\ tlogVerifier.VerifierLoads
                         /\ entry.ProofValid
             stamp == trust /\ (entry.HasInclusionPromise \/ (proofStamp /\ proved))
         IN  IF ~entry.HasInclusionProof
             THEN Step("ok", "", stamp, set)
             ELSE IF ~tlogVerifier.VerifierLoads
             THEN Step("fatal", "LoadVerifier", stamp, set \o <<"getVerifier">>)
             ELSE IF ~entry.ProofValid
             THEN Step("fatal", "VerifyInclusion", stamp,
                       set \o <<"getVerifier", "VerifyInclusion">>)
             ELSE Step("ok", "", stamp, set \o <<"getVerifier", "VerifyInclusion">>)

\* mutant: an entry without promise and proof is not refused
OfflineEvidenceNoPresenceCheck(entry, tlogVerifier, trust) ==
    OfflineAfterPresence(entry, tlogVerifier, trust, "skipSET", FALSE, FALSE)

\* mutant: a SET that does not verify ends the call
OfflineEvidenceStrictSET(entry, tlogVerifier, trust) ==
    IF ~entry.HasInclusionPromise /\ ~entry.HasInclusionProof
    THEN Step("fatal", "entry must contain an inclusion proof and/or promise",
              FALSE, <<>>)
    ELSE OfflineAfterPresence(entry, tlogVerifier, trust, "fatal", FALSE, FALSE)

\* mutant: a verified inclusion proof gives a timestamp
OfflineEvidenceStampsProof(entry, tlogVerifier, trust) ==
    IF ~entry.HasInclusionPromise /\ ~entry.HasInclusionProof
    THEN Step("fatal", "entry must contain an inclusion proof and/or promise",
              FALSE, <<>>)
    ELSE OfflineAfterPresence(entry, tlogVerifier, trust, "skipSET", FALSE, TRUE)

\* mutant: the timestamp is appended before the SET is verified
OfflineEvidenceStampsSkipped(entry, tlogVerifier, trust) ==
    IF ~entry.HasInclusionPromise /\ ~entry.HasInclusionProof
    THEN Step("fatal", "entry must contain an inclusion proof and/or promise",
              FALSE, <<>>)
    ELSE OfflineAfterPresence(entry, tlogVerifier, trust, "skipSET", TRUE, FALSE)

\* the branch taken when online is false
OfflineEvidence(entry, tlogVerifier, trust) ==
    IF ~entry.HasInclusionPromise /\ ~entry.HasInclusionProof
    THEN Step("fatal", "entry must contain an inclusion proof and/or promise",
              FALSE, <<>>)
    ELSE IF entry.HasInclusionPromise /\ ~entry.SETValid
    THEN Step("skipSET", "", FALSE, <<"VerifySET">>)
    ELSE LET stamp == entry.HasInclusionPromise /\ trust
             set == IF entry.HasInclusionPromise THEN <<"VerifySET">> ELSE <<>>
         IN  IF ~entry.HasInclusionProof
             THEN Step("ok", "", stamp, set)
             ELSE IF ~tlogVerifier.VerifierLoads
             THEN Step("fatal", "LoadVerifier", stamp, set \o <<"getVerifier">>)
             ELSE IF ~entry.ProofValid
             THEN Step("fatal", "VerifyInclusion", stamp,
                       set \o <<"getVerifier", "VerifyInclusion">>)
             ELSE Step("ok", "", stamp, set \o <<"getVerifier", "VerifyInclusion">>)

\* the records of resp.Payload verified until one fails
RECURSIVE VerifyLogEntries(_)
VerifyLogEntries(payload) ==
    IF payload = <<>> THEN [ok |-> TRUE, ops |-> <<>>]
    ELSE IF ~payload[1] THEN [ok |-> FALSE, ops |-> <<"VerifyLogEntry">>]
    ELSE LET rest == VerifyLogEntries(Tail(payload))
         IN  [ok |-> rest.ok, ops |-> <<"VerifyLogEntry">> \o rest.ops]

\* mutant: an empty answer of the log skips the entry
OnlineEvidenceSkipsEmpty(entry, tlogVerifier, trust) ==
    IF entry.Remote.status = "clientErr"
    THEN Step("fatal", "RekorClientGetter", FALSE, <<"RekorClientGetter">>)
    ELSE IF ~tlogVerifier.VerifierLoads
    THEN Step("fatal", "LoadVerifier", FALSE, <<"RekorClientGetter", "getVerifier">>)
    ELSE LET asked == <<"RekorClientGetter", "getVerifier", "GetLogEntryByIndex">>
             records == VerifyLogEntries(entry.Remote.payload)
         IN  IF entry.Remote.status = "lookupErr"
             THEN Step("fatal", "GetLogEntryByIndex", FALSE, asked)
             ELSE IF Len(entry.Remote.payload) = 0
             THEN Step("skipSET", "", FALSE, asked)
             ELSE IF ~records.ok
             THEN Step("fatal", "VerifyLogEntry", FALSE, asked \o records.ops)
             ELSE Step("ok", "", trust, asked \o records.ops)

\* the branch taken when online is true
OnlineEvidence(entry, tlogVerifier, trust) ==
    IF entry.Remote.status = "clientErr"
    THEN Step("fatal", "RekorClientGetter", FALSE, <<"RekorClientGetter">>)
    ELSE IF ~tlogVerifier.VerifierLoads
    THEN Step("fatal", "LoadVerifier", FALSE, <<"RekorClientGetter", "getVerifier">>)
    ELSE LET asked == <<"RekorClientGetter", "getVerifier", "GetLogEntryByIndex">>
             records == VerifyLogEntries(entry.Remote.payload)
         IN  IF entry.Remote.status = "lookupErr"
             THEN Step("fatal", "GetLogEntryByIndex", FALSE, asked)
             ELSE IF Len(entry.Remote.payload) = 0
             THEN Step("fatal", "unable to locate log entry", FALSE, asked)
             ELSE IF ~records.ok
             THEN Step("fatal", "VerifyLogEntry", FALSE, asked \o records.ops)
             ELSE Step("ok", "", trust, asked \o records.ops)

VerifyEvidence(entry, tlogVerifier, trust, onl) ==
    IF ~onl THEN OfflineEvidence(entry, tlogVerifier, trust)
    ELSE OnlineEvidence(entry, tlogVerifier, trust)

\* mutant: the public key is not compared
CheckConsistencyNoKey(entry) ==
    IF ~BytesEqual(entry.Signature, entitySignature)
    THEN Step("fatal", "transparency log signature does not match", FALSE,
              <<"bytes.Equal">>)
    ELSE IF ~ValidAtTime(entry.IntegratedTime)
    THEN Step("fatal", "integrated time outside certificate validity", FALSE,
              <<"bytes.Equal", "ValidAtTime">>)
    ELSE Step("counted", "", FALSE, <<"bytes.Equal", "ValidAtTime">>)

\* signature, key and integrated time against the entity
CheckConsistency(entry) ==
    IF ~BytesEqual(entry.Signature, entitySignature)
    THEN Step("fatal", "transparency log signature does not match", FALSE,
              <<"bytes.Equal">>)
    ELSE IF ~CompareKey(entry.PublicKey)
    THEN Step("fatal", "transparency log certificate does not match", FALSE,
              <<"bytes.Equal", "CompareKey">>)
    ELSE IF ~ValidAtTime(entry.IntegratedTime)
    THEN Step("fatal", "integrated time outside certificate validity", FALSE,
              <<"bytes.Equal", "CompareKey", "ValidAtTime">>)
    ELSE Step("counted", "", FALSE, <<"bytes.Equal", "CompareKey", "ValidAtTime">>)

(* ------------------------------ admission ----------------------------- *)

TooMany(es) == Len(es) > maxAllowedTlogEntries

\* mutant: only neighbouring entries are compared
HasDuplicateAdjacent(es) ==
    \E i \in 1..(Len(es) - 1) :
        /\ es[i].LogKeyID = es[i + 1].LogKeyID
        /\ es[i].LogIndex = es[i + 1].LogIndex

HasDuplicate(es) ==
    \E i \in 1..Len(es) : \E j \in (i + 1)..Len(es) :
        /\ es[i].LogKeyID = es[j].LogKeyID
        /\ es[i].LogIndex = es[j].LogIndex

\* the error returned before the loop, "" when the loop is entered
AdmissionError(es, flt) ==
    IF flt = "TlogEntries" THEN "TlogEntries"
    ELSE IF TooMany(es) THEN "too many tlog entries"
    ELSE IF HasDuplicate(es) THEN "duplicate tlog entries found"
    ELSE IF flt = "SignatureContent" THEN "SignatureContent"
    ELSE IF flt = "VerificationContent" THEN "VerificationContent"
    ELSE ""

\* mutant: a count equal to the threshold is refused
NotEnoughInclusive(verified, threshold) == verified <= threshold

NotEnough(verified, threshold) == verified < threshold

(* ------------------------------- actions ------------------------------ *)

EntityFaults == {"none", "TlogEntries", "SignatureContent", "VerificationContent"}

Init ==
    /\ entries \in ShortLists \cup LongLists
    /\ logThreshold \in 0..MaxThreshold
    /\ trustIntegratedTime \in BOOLEAN
    /\ online \in BOOLEAN
    /\ pc = "admit"
    /\ idx = 0
    /\ verifiedTimestamps = <<>>
    /\ logEntriesVerified = 0
    /\ ret = NoReturn
    /\ fault = "none"
    /\ calls = <<>>
    /\ outcome = [i \in DOMAIN entries |-> "pending"]
    /\ stampOf = <<>>

Called(ops, i) == [k \in DOMAIN ops |-> <<ops[k], i>>]

\* where the range loop goes after entry i
NextEntry(i) == IF i < Len(entries) THEN "resolve" ELSE "threshold"

\* the entity's accessors, the limit and the duplicate scan
Admit ==
    /\ pc = "admit"
    /\ \E flt \in EntityFaults :
        /\ fault' = flt
        /\ IF AdmissionError(entries, flt) # ""
           THEN /\ ret' = Fail(AdmissionError(entries, flt))
                /\ pc' = "done"
                /\ idx' = idx
           ELSE /\ ret' = ret
                /\ pc' = NextEntry(0)
                /\ idx' = IF Len(entries) > 0 THEN 1 ELSE 0
    /\ UNCHANGED <<inputs, verifiedTimestamps, logEntriesVerified, calls,
                   outcome, stampOf>>

\* what every part of the loop body does with its result
Apply(r, okpc) ==
    /\ calls' = calls \o Called(r.ops, idx)
    /\ verifiedTimestamps' =
          IF r.stamp
          THEN Append(verifiedTimestamps,
                      Timestamp(entries[idx],
                                RekorLogs[HexEncodeToString(entries[idx].LogKeyID)]))
          ELSE verifiedTimestamps
    /\ stampOf' = IF r.stamp THEN Append(stampOf, idx) ELSE stampOf
    /\ logEntriesVerified' =
          IF r.kind = "counted" THEN logEntriesVerified + 1 ELSE logEntriesVerified
    /\ outcome' = IF r.kind = "ok" THEN outcome
                  ELSE [outcome EXCEPT ![idx] = r.kind]
    /\ IF r.kind = "fatal"
       THEN /\ ret' = Fail(r.err)
            /\ pc' = "done"
            /\ idx' = idx
       ELSE IF r.kind = "ok"
       THEN /\ ret' = ret
            /\ pc' = okpc
            /\ idx' = idx
       ELSE /\ ret' = ret
            /\ pc' = NextEntry(idx)
            /\ idx' = IF idx < Len(entries) THEN idx + 1 ELSE idx
    /\ UNCHANGED <<inputs, fault>>

Resolve ==
    /\ pc = "resolve"
    /\ Apply(ResolveEntry(entries[idx]), "evidence")

Evidence ==
    /\ pc = "evidence"
    /\ Apply(VerifyEvidence(entries[idx],
                            RekorLogs[HexEncodeToString(entries[idx].LogKeyID)],
                            trustIntegratedTime, online),
             "consistency")

Consistency ==
    /\ pc = "consistency"
    /\ Apply(CheckConsistency(entries[idx]), "consistency")

Threshold ==
    /\ pc = "threshold"
    /\ ret' = IF NotEnough(logEntriesVerified, logThreshold)
              THEN Fail("not enough verified log entries from transparency log")
              ELSE Succeed(verifiedTimestamps)
    /\ pc' = "done"
    /\ UNCHANGED <<inputs, idx, verifiedTimestamps, logEntriesVerified, fault,
                   calls, outcome, stampOf>>

Next == Admit \/ Resolve \/ Evidence \/ Consistency \/ Threshold

Spec == Init /\ [][Next]_vars

(* ----------------------- the function as a whole ---------------------- *)

\* one pass of the loop body over an entry
ProcessEntry(entry, trust, onl) ==
    LET r == ResolveEntry(entry)
        v == VerifyEvidence(entry, RekorLogs[HexEncodeToString(entry.LogKeyID)],
                            trust, onl)
        st == IF v.stamp
              THEN <<Timestamp(entry, RekorLogs[HexEncodeToString(entry.LogKeyID)])>>
              ELSE <<>>
        c == CheckConsistency(entry)
    IN  IF r.kind # "ok" THEN [kind |-> r.kind, err |-> r.err, stamps |-> <<>>]
        ELSE IF v.kind # "ok" THEN [kind |-> v.kind, err |-> v.err, stamps |-> st]
        ELSE [kind |-> c.kind, err |-> c.err, stamps |-> st]

\* mutant: the loop ends at the first entry of an unknown log
RECURSIVE RunLoopBreak(_, _, _, _, _, _)
RunLoopBreak(es, ts, verified, threshold, trust, onl) ==
    IF es = <<>>
    THEN IF NotEnough(verified, threshold)
         THEN Fail("not enough verified log entries from transparency log")
         ELSE Succeed(ts)
    ELSE LET r == ProcessEntry(Head(es), trust, onl)
         IN  IF r.kind = "fatal" THEN Fail(r.err)
             ELSE RunLoopBreak(IF r.kind = "skipLog" THEN <<>> ELSE Tail(es),
                               ts \o r.stamps,
                               IF r.kind = "counted" THEN verified + 1 ELSE verified,
                               threshold, trust, onl)

RECURSIVE RunLoop(_, _, _, _, _, _)
RunLoop(es, ts, verified, threshold, trust, onl) ==
    IF es = <<>>
    THEN IF NotEnough(verified, threshold)
         THEN Fail("not enough verified log entries from transparency log")
         ELSE Succeed(ts)
    ELSE LET r == ProcessEntry(Head(es), trust, onl)
         IN  IF r.kind = "fatal" THEN Fail(r.err)
             ELSE RunLoop(Tail(es), ts \o r.stamps,
                          IF r.kind = "counted" THEN verified + 1 ELSE verified,
                          threshold, trust, onl)

VerifyArtifactTransparencyLog(es, flt, threshold, trust, onl) ==
    IF AdmissionError(es, flt) # "" THEN Fail(AdmissionError(es, flt))
    ELSE RunLoop(es, <<>>, 0, threshold, trust, onl)

(* ------------------ what the claims say about an entry ---------------- *)

TrustedKeyIDs == {KeyA, KeyB}

Recognized(e) == e.LogKeyID \in TrustedKeyIDs

LogOf(e) == IF e.LogKeyID = KeyA
            THEN [BaseURL |-> "https://a.example", VerifierLoads |-> TRUE]
            ELSE [BaseURL |-> "https://b.example", VerifierLoads |-> FALSE]

\* offline, a promise is present and its SET does not verify
SETFails(e) == ~online /\ e.HasInclusionPromise /\ ~e.SETValid

RemoteVerifies(e) ==
    /\ e.Remote.status = "ok"
    /\ e.Remote.payload # <<>>
    /\ \A k \in DOMAIN e.Remote.payload : e.Remote.payload[k]

EvidenceHolds(e) ==
    IF online
    THEN RemoteVerifies(e) /\ LogOf(e).VerifierLoads
    ELSE /\ e.HasInclusionPromise \/ e.HasInclusionProof
         /\ e.HasInclusionPromise => e.SETValid
         /\ e.HasInclusionProof => e.ProofValid /\ LogOf(e).VerifierLoads

ConsistencyHolds(e) ==
    /\ e.Signature = entitySignature
    /\ e.PublicKey = entityKey
    /\ e.IntegratedTime \in ValidityWindow

Passes(e) ==
    e.WellFormed /\ Recognized(e) /\ EvidenceHolds(e) /\ ConsistencyHolds(e)

\* the entry fails in a way that is not one of the two skips
FatalEntry(e) ==
    \/ ~e.WellFormed
    \/ Recognized(e) /\ ~SETFails(e) /\ ~(EvidenceHolds(e) /\ ConsistencyHolds(e))

SameIdentity(a, b) == a.LogKeyID = b.LogKeyID /\ a.LogIndex = b.LogIndex

SomeDuplicate ==
    \E i \in DOMAIN entries : \E j \in DOMAIN entries :
        i # j /\ SameIdentity(entries[i], entries[j])

Admitted ==
    fault = "none" /\ Len(entries) <= 32 /\ ~SomeDuplicate

Counted == {i \in DOMAIN entries : outcome[i] = "counted"}

PassCount == Cardinality({i \in DOMAIN entries : Passes(entries[i])})

Success == pc = "done" /\ ret.err = ""

(* -------------------------------- claims ------------------------------ *)

\* C1: when the list is admitted and no entry fails fatally, the call succeeds
\* exactly if the number of entries that pass the evidence and the three
\* consistency checks is at least logThreshold, and otherwise returns the
\* "not enough verified log entries" error.
C1_ThresholdBinary ==
    (pc = "done" /\ Admitted /\ \A i \in DOMAIN entries : ~FatalEntry(entries[i]))
    => /\ ret.err = "" <=> PassCount >= logThreshold
       /\ PassCount < logThreshold
            => ret = Fail("not enough verified log entries from transparency log")
       /\ logEntriesVerified = PassCount

C1_Witness ==
    /\ pc = "done"
    /\ Len(entries) = 2
    /\ logThreshold = 2
    /\ PassCount = 1
    /\ \A i \in DOMAIN entries : ~FatalEntry(entries[i])
    /\ ret.err = "not enough verified log entries from transparency log"

\* C2: at every point of the loop, every counted entry is of a trusted log,
\* has its evidence verified (offline: a promise and/or a proof, each one
\* present verified; online: a non-empty remote answer whose records all
\* verify), and agrees with the entity in signature, key and integrated time.
C2_CountedEntriesVerified ==
    /\ logEntriesVerified = Cardinality(Counted)
    /\ \A i \in Counted :
        /\ Recognized(entries[i])
        /\ ~online => /\ entries[i].HasInclusionPromise \/ entries[i].HasInclusionProof
                      /\ entries[i].HasInclusionPromise => entries[i].SETValid
                      /\ entries[i].HasInclusionProof => entries[i].ProofValid
        /\ online => RemoteVerifies(entries[i])
        /\ entries[i].Signature = entitySignature
        /\ CompareKey(entries[i].PublicKey)
        /\ ValidAtTime(entries[i].IntegratedTime)

C2_Witness ==
    /\ pc = "consistency"
    /\ idx = 2
    /\ Counted = {1}
    /\ online
    /\ ~entries[1].HasInclusionPromise
    /\ ~entries[1].HasInclusionProof

\* C3: a list of more than 32 entries, or one in which two entries at any
\* two positions share (LogKeyID, LogIndex), is rejected with the error of
\* admission and nothing has been done with any entry.
C3_AdmissionFirst ==
    (Len(entries) > 32 \/ SomeDuplicate)
    => /\ pc \in {"admit", "done"}
       /\ calls = <<>>
       /\ \A i \in DOMAIN entries : outcome[i] = "pending"
       /\ logEntriesVerified = 0 /\ verifiedTimestamps = <<>>
       /\ (pc = "done" /\ fault # "TlogEntries")
            => ret = Fail(IF Len(entries) > 32 THEN "too many tlog entries"
                          ELSE "duplicate tlog entries found")

C3_Witness ==
    /\ pc = "done"
    /\ Len(entries) = 32
    /\ SameIdentity(entries[1], entries[32])
    /\ ret.err = "duplicate tlog entries found"

\* C4: an entry of a log that is not trusted is never counted, never gives a
\* timestamp and, once structurally valid, never ends the call: only
\* ValidateEntry and the lookup are done with it, whatever else it carries.
C4_UnrecognizedSkipped ==
    /\ pc \in {"evidence", "consistency"} => Recognized(entries[idx])
    /\ \A i \in DOMAIN entries :
        ~Recognized(entries[i])
        => /\ outcome[i] # "counted"
           /\ i \notin Range(stampOf)
           /\ outcome[i] = "fatal" => ~entries[i].WellFormed
           /\ (entries[i].WellFormed /\ outcome[i] # "pending")
                => outcome[i] = "skipLog"
           /\ \A k \in DOMAIN calls :
                calls[k][2] = i => calls[k][1] \in {"ValidateEntry", "RekorLogs"}

C4_Witness ==
    /\ Success
    /\ Len(entries) = 2
    /\ ~Recognized(entries[1])
    /\ ~ConsistencyHolds(entries[1])
    /\ entries[1].HasInclusionProof /\ ~entries[1].ProofValid
    /\ outcome = <<"skipLog", "counted">>

\* C5 as stated: offline, an admitted list with an entry that has neither
\* promise nor proof never succeeds, whatever log the entry is of.
C5_AnyLogMissingEvidenceFatal ==
    (pc = "done" /\ ~online /\ Admitted
     /\ \E i \in DOMAIN entries :
            ~entries[i].HasInclusionPromise /\ ~entries[i].HasInclusionProof)
    => ret.err # ""

\* C5 as amended: offline, an admitted list with an entry of a trusted log
\* that has neither promise nor proof never succeeds, and the entry itself,
\* when the loop reaches it, ends the call with the missing-evidence error.
C5_MissingEvidenceFatal ==
    /\ (pc = "done" /\ ~online /\ Admitted
        /\ \E i \in DOMAIN entries :
              /\ Recognized(entries[i])
              /\ ~entries[i].HasInclusionPromise /\ ~entries[i].HasInclusionProof)
       => ret.err # "" /\ ret.isNil
    /\ \A i \in DOMAIN entries :
         (/\ ~online /\ Recognized(entries[i]) /\ entries[i].WellFormed
          /\ ~entries[i].HasInclusionPromise /\ ~entries[i].HasInclusionProof
          /\ outcome[i] # "pending")
         => ret = Fail("entry must contain an inclusion proof and/or promise")

C5_Witness ==
    /\ pc = "done" /\ ~online
    /\ logThreshold = 0
    /\ Len(entries) = 2
    /\ outcome = <<"counted", "fatal">>
    /\ Recognized(entries[2])
    /\ ~entries[2].HasInclusionPromise /\ ~entries[2].HasInclusionProof
    /\ ret.err = "entry must contain an inclusion proof and/or promise"

\* an entry the offline branch is asked about in C6: structurally valid, of
\* a trusted log whose verifier loads, with a proof that verifies, and
\* consistent with the entity
ProofVerifiedEntry(e) ==
    /\ ~online /\ e.WellFormed /\ Recognized(e) /\ LogOf(e).VerifierLoads
    /\ e.HasInclusionProof /\ e.ProofValid
    /\ ConsistencyHolds(e)

\* C6 as stated: such an entry is counted, without a timestamp, both when it
\* has no promise and when its promise's SET fails to verify.
C6_ProofCountsDespiteSET ==
    \A i \in DOMAIN entries :
        (ProofVerifiedEntry(entries[i]) /\ outcome[i] # "pending"
         /\ (~entries[i].HasInclusionPromise \/ ~entries[i].SETValid))
        => outcome[i] = "counted" /\ i \notin Range(stampOf)

\* C6 as amended: such an entry is counted, without a timestamp, when it has
\* no promise; when it has a promise whose SET fails to verify it is skipped
\* without an error and without a timestamp, and is not counted.
C6_ProofCountsWithoutPromise ==
    \A i \in DOMAIN entries :
        (ProofVerifiedEntry(entries[i]) /\ outcome[i] # "pending")
        => /\ ~entries[i].HasInclusionPromise
                => outcome[i] = "counted" /\ i \notin Range(stampOf)
           /\ (entries[i].HasInclusionPromise /\ ~entries[i].SETValid)
                => /\ outcome[i] = "skipSET" /\ i \notin Range(stampOf)
                   /\ \A k \in DOMAIN calls :
                        calls[k][2] = i => calls[k][1] # "VerifyInclusion"

C6_Witness ==
    /\ Success /\ trustIntegratedTime
    /\ Len(entries) = 2
    /\ ProofVerifiedEntry(entries[1]) /\ ~entries[1].HasInclusionPromise
    /\ ProofVerifiedEntry(entries[2]) /\ entries[2].HasInclusionPromise
    /\ ~entries[2].SETValid
    /\ outcome = <<"counted", "skipSET">>
    /\ ret.timestamps = <<>>

\* C7: every timestamp collected, and so every one returned, is of an entry
\* of a trusted log, taken with trustIntegratedTime set, offline after a
\* promise whose SET verified or online after the remote records verified,
\* and holds that entry's integrated time and its log's base URL; an entry
\* without a promise gives none offline, and without trustIntegratedTime the
\* successful result is empty.
C7_TimestampProvenance ==
    /\ Len(stampOf) = Len(verifiedTimestamps)
    /\ \A j \in DOMAIN verifiedTimestamps :
        LET e == entries[stampOf[j]]
        IN  /\ Recognized(e)
            /\ trustIntegratedTime
            /\ \/ ~online /\ e.HasInclusionPromise /\ e.SETValid
               \/ online /\ RemoteVerifies(e)
            /\ verifiedTimestamps[j] =
                  [Time |-> e.IntegratedTime, URI |-> LogOf(e).BaseURL]
    /\ \A i \in DOMAIN entries :
        (~online /\ ~entries[i].HasInclusionPromise) => i \notin Range(stampOf)
    /\ Success => /\ ret.timestamps = verifiedTimestamps
                  /\ ~trustIntegratedTime => ret.timestamps = <<>>

C7_Witness ==
    /\ Success /\ ~online
    /\ Len(ret.timestamps) = 2
    /\ ret.timestamps[1].URI # ret.timestamps[2].URI
    /\ ret.timestamps[1].Time # ret.timestamps[2].Time

\* C8: on success every entry that was not counted was skipped for one of
\* two reasons, its log not trusted or (offline) its promise's SET failing;
\* every other failure of an entry is fatal, ends the call at that entry
\* with an error and no timestamps, and no later entry is touched.
C8_FatalOrSkip ==
    /\ Success
        => \A i \in DOMAIN entries :
              i \notin Counted
              => \/ outcome[i] = "skipLog" /\ ~Recognized(entries[i])
                 \/ /\ outcome[i] = "skipSET" /\ Recognized(entries[i])
                    /\ SETFails(entries[i])
    /\ \A i \in DOMAIN entries :
        outcome[i] # "pending" => (outcome[i] = "fatal" <=> FatalEntry(entries[i]))
    /\ \A i \in DOMAIN entries :
        outcome[i] = "fatal"
        => /\ pc = "done" /\ idx = i
           /\ ret.err # "" /\ ret.isNil /\ ret.timestamps = <<>>
           /\ \A j \in DOMAIN entries : j > i => outcome[j] = "pending"
           /\ \A k \in DOMAIN calls : calls[k][2] <= i

C8_Witness ==
    /\ pc = "done" /\ online
    /\ Len(entries) = 2
    /\ outcome = <<"fatal", "pending">>
    /\ entries[1].Remote.status = "ok" /\ entries[1].Remote.payload = <<>>
    /\ ret.err = "unable to locate log entry"

(* ---------------------------- permutations ---------------------------- *)

Reverse(s) == [i \in DOMAIN s |-> s[Len(s) + 1 - i]]

Rotate(s) == [i \in DOMAIN s |-> s[(i % Len(s)) + 1]]

\* every order of a short list; of a long list, its reversal and a rotation
Orders(s) ==
    IF Len(s) <= MaxLen
    THEN { [i \in DOMAIN s |-> s[f[i]]] :
             f \in {g \in [DOMAIN s -> DOMAIN s] : \A a \in DOMAIN s, b \in DOMAIN s :
                                                       g[a] = g[b] => a = b} }
    ELSE {s, Reverse(s), Rotate(s)}

BagOf(ts) == [x \in Range(ts) |-> Cardinality({k \in DOMAIN ts : ts[k] = x})]

\* the call on the same entity, trusted material, threshold and flags with
\* the entries in another order
Reordered(es) ==
    VerifyArtifactTransparencyLog(es, fault, logThreshold, trustIntegratedTime, online)

\* what C9 compares between two orders: the error and the timestamps up to
\* their order
OutcomeOf(r) == [err |-> r.err, bag |-> BagOf(r.timestamps)]

\* the verdict of a call: success or failure, and the timestamps up to order
VerdictOf(r) == [ok |-> r.err = "", isNil |-> r.isNil, bag |-> BagOf(r.timestamps)]

\* C9 as stated: the entries in any order give the same error, or the same
\* timestamps up to their order.
C9_SameOutcomeAnyOrder ==
    pc = "done"
    => \A es \in Orders(entries) : OutcomeOf(Reordered(es)) = OutcomeOf(ret)

\* C9 as amended: the entries in any order give the same verdict, success
\* or failure, and on success the same timestamps up to their order; the
\* error of a failure is that of the first entry to fail in the order taken.
C9_SameVerdictAnyOrder ==
    pc = "done"
    => /\ Reordered(entries) = ret
       /\ \A es \in Orders(entries) : VerdictOf(Reordered(es)) = VerdictOf(ret)

C9_Witness ==
    /\ pc = "done"
    /\ Len(entries) = 2
    /\ FatalEntry(entries[1]) /\ FatalEntry(entries[2])
    /\ Reordered(Reverse(entries)).err # ret.err
    /\ Reordered(Reverse(entries)).err # ""

\* C10: a timestamp is appended before the entry's consistency is checked,
\* yet a successful result holds only timestamps of counted entries, one
\* entry each, so that their number is at most the verified count, which is
\* at most the number of entries, at most 32; and a failure returns nil.
C10_TimestampsOfCountedEntries ==
    pc = "done"
    => /\ ret.err = ""
            => /\ ~ret.isNil
               /\ ret.timestamps = verifiedTimestamps
               /\ \A j \in DOMAIN stampOf : stampOf[j] \in Counted
               /\ \A j \in DOMAIN stampOf, k \in DOMAIN stampOf :
                     stampOf[j] = stampOf[k] => j = k
               /\ Len(ret.timestamps) <= logEntriesVerified
               /\ logEntriesVerified <= Len(entries)
               /\ Len(entries) <= 32
       /\ ret.err # "" => ret.isNil /\ ret.timestamps = <<>>

C10_Witness ==
    /\ pc = "done"
    /\ ret.err = "transparency log signature does not match"
    /\ Len(entries) = 2
    /\ stampOf = <<1, 2>>
    /\ outcome = <<"counted", "fatal">>
    /\ ret.isNil

====
